---- MODULE Spec2Model ----
(***************************************************************************)
(* Model of chafla/solardata: the SolarReader HTTP client / device locator *)
(* (src/src/solar_reader.py) and the SolarData day/night polling loop      *)
(* (src/runner.py).                                                        *)
(*                                                                         *)
(* Texts are sequences of one-character strings.  A Python float is an     *)
(* IEEE 754 double [q, k] standing for q * 2^(-k).  An exception is the    *)
(* name of its class, "" meaning that nothing was raised.                  *)
(***************************************************************************)
EXTENDS Integers, Sequences, FiniteSets, TLC

\* ------------------------------------------------------------------------
\* Bounds of the model
\* ------------------------------------------------------------------------

\* Longest metric text enumerated for the extractors.
MaxLen == 3

\* Host suffixes 0..MaxLive-1 (and the last suffix) may answer a probe; every
\* other host of the range refuses the connection.
MaxLive == 2

\* Largest inverter count the device page shows.
MaxMi == 2

\* ------------------------------------------------------------------------
\* Program constants
\* ------------------------------------------------------------------------

\* for i in range(0, 256)
HostRange == 256

\* return dt.hour > 12
NoonHour == 12

\* response.status_code == 200
StatusOk == 200

\* Python's None as the value of an address
None == -1

\* ------------------------------------------------------------------------
\* Texts and numbers
\* ------------------------------------------------------------------------

Digits == {"0", "1", "2", "3", "4", "5", "6", "7", "8", "9"}

DigitVal(c) ==
    CASE c = "0" -> 0 [] c = "1" -> 1 [] c = "2" -> 2 [] c = "3" -> 3
      [] c = "4" -> 4 [] c = "5" -> 5 [] c = "6" -> 6 [] c = "7" -> 7
      [] c = "8" -> 8 [] c = "9" -> 9

RECURSIVE Pow10(_)
Pow10(n) == IF n = 0 THEN 1 ELSE 10 * Pow10(n - 1)

RECURSIVE Pow2(_)
Pow2(n) == IF n = 0 THEN 1 ELSE 2 * Pow2(n - 1)

\* A Python float is an IEEE 754 double: a significand of 53 bits and a
\* power of two.  The significand does not fit a machine integer of the
\* model checker, so it is kept as a list of limbs of LimbBits bits, the
\* least significant first.
MantBits == 53

LimbBits == 10

Base == Pow2(LimbBits)

\* the limbs of a small natural number
RECURSIVE BigOf(_)
BigOf(n) == IF n = 0 THEN <<>> ELSE <<n % Base>> \o BigOf(n \div Base)

\* the small natural number of a list of limbs
RECURSIVE SmallOf(_)
SmallOf(x) == IF x = <<>> THEN 0 ELSE Head(x) + Base * SmallOf(Tail(x))

\* x * k + carry, for a small k
RECURSIVE BigMul(_, _, _)
BigMul(x, k, carry) ==
    IF x = <<>> THEN BigOf(carry)
    ELSE LET p == Head(x) * k + carry
         IN  <<p % Base>> \o BigMul(Tail(x), k, p \div Base)

\* quotient and remainder of x by a small dv, the high limbs first
RECURSIVE BigDivMod(_, _)
BigDivMod(x, dv) ==
    IF x = <<>> THEN [q |-> <<>>, r |-> 0]
    ELSE LET hi == BigDivMod(Tail(x), dv)
             cur == hi.r * Base + Head(x)
         IN  [q |-> <<cur \div dv>> \o hi.q, r |-> cur % dv]

\* the list without its high zero limbs
RECURSIVE Strip(_)
Strip(x) ==
    IF x # <<>> /\ x[Len(x)] = 0 THEN Strip(SubSeq(x, 1, Len(x) - 1)) ELSE x

RECURSIVE SmallBitLen(_)
SmallBitLen(n) == IF n = 0 THEN 0 ELSE 1 + SmallBitLen(n \div 2)

\* the number of bits of x
BitLength(x) ==
    LET y == Strip(x)
    IN  IF y = <<>> THEN 0
        ELSE LimbBits * (Len(y) - 1) + SmallBitLen(y[Len(y)])

\* x * 2^n
RECURSIVE ShiftLeft(_, _)
ShiftLeft(x, n) ==
    IF n >= LimbBits THEN <<0>> \o ShiftLeft(x, n - LimbBits)
    ELSE BigMul(x, Pow2(n), 0)

\* The double nearest to num / (den * 2^k), ties to the even significand:
\* [q, k] stands for q * 2^(-k), with q of MantBits bits (q = <<>> for 0.0).
\* num is a list of limbs, den a small positive number.
RECURSIVE RoundToDouble(_, _, _)
RoundToDouble(num, den, k) ==
    IF Strip(num) = <<>> THEN [q |-> <<>>, k |-> 0]
    ELSE
    LET len == BitLength(BigDivMod(num, den).q)
    IN  IF len = 0 THEN RoundToDouble(<<0>> \o num, den, k + LimbBits)
        ELSE LET up == IF len < MantBits THEN MantBits - len ELSE 0
                 down == IF len > MantBits THEN len - MantBits ELSE 0
                 dv == den * Pow2(down)
                 dm == BigDivMod(ShiftLeft(num, up), dv)
                 odd == dm.q # <<>> /\ Head(dm.q) % 2 = 1
                 more == 2 * dm.r > dv \/ (2 * dm.r = dv /\ odd)
                 q == Strip(IF more THEN BigMul(dm.q, 1, 1) ELSE dm.q)
             IN  IF BitLength(q) > MantBits
                 THEN [q |-> Strip(BigDivMod(q, 2).q), k |-> k + up - down - 1]
                 ELSE [q |-> q, k |-> k + up - down]

\* the double nearest to the decimal m / 10^d
DoubleOf(m, d) == RoundToDouble(BigOf(m), Pow10(d), 0)

\* data_float *= 1000: the product, rounded to a double
Times1000(f) == RoundToDouble(BigMul(f.q, 1000, 0), 1, f.k)

\* x \div 2^n
RECURSIVE ShiftRight(_, _)
ShiftRight(x, n) ==
    IF x = <<>> THEN <<>>
    ELSE IF n >= LimbBits THEN ShiftRight(Tail(x), n - LimbBits)
    ELSE BigDivMod(x, Pow2(n)).q

\* int(data_float), for a value that is not negative: the fraction is cut
IntOf(f) ==
    IF f.k >= 0 THEN SmallOf(ShiftRight(f.q, f.k))
    ELSE SmallOf(ShiftLeft(f.q, 0 - f.k))

\* the value 0 that the extractors return when float() fails (0 == 0.0)
Zero == [q |-> <<>>, k |-> 0]

\* number_pattern = re.compile(r"([\d.]+)"): the characters of a run
IsNumChar(c) == c \in Digits \cup {"."}

RECURSIVE RunLen(_)
RunLen(t) ==
    IF t = <<>> \/ ~IsNumChar(Head(t)) THEN 0 ELSE 1 + RunLen(Tail(t))

\* number_pattern.findall(text): the maximal runs, left to right
RECURSIVE findall(_)
findall(t) ==
    IF t = <<>> THEN <<>>
    ELSE IF IsNumChar(Head(t))
         THEN LET n == RunLen(t)
              IN  <<SubSeq(t, 1, n)>> \o findall(SubSeq(t, n + 1, Len(t)))
         ELSE findall(Tail(t))

RECURSIVE CountDots(_)
CountDots(r) ==
    IF r = <<>> THEN 0
    ELSE (IF Head(r) = "." THEN 1 ELSE 0) + CountDots(Tail(r))

\* the digits of a run read as one integer, the decimal point skipped
RECURSIVE Mantissa(_, _)
Mantissa(r, acc) ==
    IF r = <<>> THEN acc
    ELSE IF Head(r) = "." THEN Mantissa(Tail(r), acc)
         ELSE Mantissa(Tail(r), 10 * acc + DigitVal(Head(r)))

\* the number of digits after the decimal point of a run
RECURSIVE FracDigits(_)
FracDigits(r) ==
    IF r = <<>> THEN 0
    ELSE IF Head(r) = "." THEN Len(r) - 1
         ELSE FracDigits(Tail(r))

\* float(s) on a run of digits and points: ValueError unless the run holds a
\* digit and at most one point
float(r) ==
    IF CountDots(r) > 1 \/ CountDots(r) = Len(r)
    THEN [exc |-> "ValueError", val |-> Zero]
    ELSE [exc |-> "", val |-> DoubleOf(Mantissa(r, 0), FracDigits(r))]

\* "kW" in text
HasKW(t) == \E i \in 1..(Len(t) - 1) : t[i] = "k" /\ t[i + 1] = "W"

\* str.strip(): leading and trailing blanks dropped
RECURSIVE LStrip(_)
LStrip(t) == IF t # <<>> /\ Head(t) = " " THEN LStrip(Tail(t)) ELSE t

RECURSIVE RStrip(_)
RStrip(t) ==
    IF t # <<>> /\ t[Len(t)] = " " THEN RStrip(SubSeq(t, 1, Len(t) - 1)) ELSE t

\* int(s) on a text: blanks around it and one sign before it are accepted,
\* anything but digits after that raises ValueError
int(t) ==
    LET s == RStrip(LStrip(t))
        signed == s # <<>> /\ Head(s) \in {"+", "-"}
        body == IF signed THEN Tail(s) ELSE s
        v == Mantissa(body, 0)
    IN  IF body = <<>> \/ \E i \in 1..Len(body) : body[i] \notin Digits
        THEN [exc |-> "ValueError", val |-> 0]
        ELSE [exc |-> "", val |-> IF signed /\ Head(s) = "-" THEN 0 - v ELSE v]

\* ------------------------------------------------------------------------
\* SolarReader: the metric extractors, applied to the outcome of
\* get_response.  resp.exc names the exception get_response raised ("" when
\* it returned); resp.data is what the extractor's xpath finds in the page:
\* <<>> or a one-element list holding the text node.
\* ------------------------------------------------------------------------

get_wh_production(resp) ==
    IF resp.exc # "" THEN [exc |-> resp.exc, val |-> 0]
    ELSE IF resp.data = <<>> THEN [exc |-> "IndexError", val |-> 0]
    ELSE LET match == findall(resp.data[1])
         IN  IF match = <<>> THEN [exc |-> "IndexError", val |-> 0]
             ELSE LET f == float(match[1])
                  IN  IF f.exc = "ValueError" THEN [exc |-> "", val |-> 0]
                      ELSE [exc |-> "",
                            val |-> IntOf(IF HasKW(resp.data[1])
                                          THEN Times1000(f.val) ELSE f.val)]

get_current_watt_production(resp) ==
    IF resp.exc # "" THEN [exc |-> resp.exc, val |-> Zero]
    ELSE IF resp.data = <<>> THEN [exc |-> "IndexError", val |-> Zero]
    ELSE LET match == findall(resp.data[1])
         IN  IF match = <<>> THEN [exc |-> "IndexError", val |-> Zero]
             ELSE LET f == float(match[1])
                  IN  IF f.exc = "ValueError" THEN [exc |-> "", val |-> Zero]
                      ELSE [exc |-> "",
                            val |-> IF HasKW(resp.data[1])
                                    THEN Times1000(f.val) ELSE f.val]

\* get_mi_online with the fallback of the other extractors: a text that
\* int() rejects gives 0
get_mi_online_Fallback(resp) ==
    IF resp.exc # "" THEN [exc |-> resp.exc, val |-> 0]
    ELSE IF resp.data = <<>> THEN [exc |-> "IndexError", val |-> 0]
    ELSE LET n == int(resp.data[1])
         IN  IF n.exc = "ValueError" THEN [exc |-> "", val |-> 0] ELSE n

get_mi_online(resp) ==
    IF resp.exc # "" THEN [exc |-> resp.exc, val |-> 0]
    ELSE IF resp.data = <<>> THEN [exc |-> "IndexError", val |-> 0]
    ELSE int(resp.data[1])

\* is_online: return self.get_mi_online() > 0
is_online(resp) ==
    LET r == get_mi_online(resp)
    IN  [exc |-> r.exc, val |-> r.exc = "" /\ r.val > 0]

\* ------------------------------------------------------------------------
\* SolarReader: device locator and HTTP client.  An address of the scanned
\* range is its host suffix i (the text "<base>.<i>"); a configured static
\* address is a number as well.  What the network answers is an input:
\*   probes[i]  the outcome of the scan's GET to suffix i: "match" (a page
\*              holding the tag), "nomatch", or the exception raised
\*   first, retry  the outcome of a GET of get_response:
\*              [exc, status, data], exc = "" for a response
\* ------------------------------------------------------------------------

\* (ScanRange_TimeoutStops is ScanRange with "except requests.ConnectionError"
\* alone: a Timeout leaves the loop.)
\* for i in range(0, 256), lines 64-71, run over the suffixes lo..hi in
\* ascending order: the lower half first, the upper half only if the lower
\* half neither returned nor raised.  A page that matches the tag returns
\* the address; ConnectionError and Timeout are swallowed; any other
\* exception of requests.get leaves the loop.  probed counts the GETs issued,
\* stop tells that the loop was left.
RECURSIVE ScanRange_TimeoutStops(_, _, _)
ScanRange_TimeoutStops(lo, hi, probes) ==
    IF lo = hi
    THEN IF probes[lo] = "match"
         THEN [ip |-> lo, exc |-> "", probed |-> 1, stop |-> TRUE]
         ELSE IF probes[lo] \in {"nomatch", "ConnectionError"}
         THEN [ip |-> None, exc |-> "", probed |-> 1, stop |-> FALSE]
         ELSE [ip |-> None, exc |-> probes[lo], probed |-> 1, stop |-> TRUE]
    ELSE LET mid == (lo + hi) \div 2
             low == ScanRange_TimeoutStops(lo, mid, probes)
         IN  IF low.stop THEN low
             ELSE LET high == ScanRange_TimeoutStops(mid + 1, hi, probes)
                  IN  [high EXCEPT !.probed = low.probed + high.probed]

RECURSIVE ScanRange(_, _, _)
ScanRange(lo, hi, probes) ==
    IF lo = hi
    THEN IF probes[lo] = "match"
         THEN [ip |-> lo, exc |-> "", probed |-> 1, stop |-> TRUE]
         ELSE IF probes[lo] \in {"nomatch", "ConnectionError", "Timeout"}
         THEN [ip |-> None, exc |-> "", probed |-> 1, stop |-> FALSE]
         ELSE [ip |-> None, exc |-> probes[lo], probed |-> 1, stop |-> TRUE]
    ELSE LET mid == (lo + hi) \div 2
             low == ScanRange(lo, mid, probes)
         IN  IF low.stop THEN low
             ELSE LET high == ScanRange(mid + 1, hi, probes)
                  IN  [high EXCEPT !.probed = low.probed + high.probed]

\* the whole scan; falling out of the loop returns None
ScanFrom(i, probes) ==
    LET s == ScanRange(i, HostRange - 1, probes)
    IN  [ip |-> s.ip, exc |-> s.exc, probed |-> s.probed]

get_ip_address(using_static, ip, probes) ==
    IF using_static THEN [ip |-> ip, exc |-> "", probed |-> 0]
    ELSE ScanFrom(0, probes)

\* get_response without line 103: the address found is not kept
get_response_NoUpdate(using_static, ip, first, new, retry) ==
    IF first.exc # "ConnectionError"
    THEN [ip |-> ip, exc |-> first.exc, status |-> first.status,
          data |-> first.data, resolves |-> 0, probed |-> 0, gets |-> 1,
          at |-> ip]
    ELSE IF using_static
    THEN [ip |-> ip, exc |-> "ConnectionError", status |-> 0, data |-> <<>>,
          resolves |-> 0, probed |-> 0, gets |-> 1,
          at |-> ip]
    ELSE IF new.exc # ""
    THEN [ip |-> ip, exc |-> new.exc, status |-> 0, data |-> <<>>,
          resolves |-> 1, probed |-> new.probed, gets |-> 1,
          at |-> ip]
    ELSE IF new.ip # None
    THEN [ip |-> ip, exc |-> retry.exc, status |-> retry.status,
          data |-> retry.data, resolves |-> 1, probed |-> new.probed,
          gets |-> 2, at |-> new.ip]
    ELSE [ip |-> ip, exc |-> "RuntimeError", status |-> 0, data |-> <<>>,
          resolves |-> 1, probed |-> new.probed, gets |-> 1,
          at |-> ip]

\* get_response without lines 99-100: a static address is resolved again
get_response_AlwaysResolve(using_static, ip, first, new, retry) ==
    IF first.exc # "ConnectionError"
    THEN [ip |-> ip, exc |-> first.exc, status |-> first.status,
          data |-> first.data, resolves |-> 0, probed |-> 0, gets |-> 1,
          at |-> ip]
    ELSE IF new.exc # ""
    THEN [ip |-> ip, exc |-> new.exc, status |-> 0, data |-> <<>>,
          resolves |-> 1, probed |-> new.probed, gets |-> 1,
          at |-> ip]
    ELSE IF new.ip # None
    THEN [ip |-> new.ip, exc |-> retry.exc, status |-> retry.status,
          data |-> retry.data, resolves |-> 1, probed |-> new.probed,
          gets |-> 2, at |-> new.ip]
    ELSE [ip |-> ip, exc |-> "RuntimeError", status |-> 0, data |-> <<>>,
          resolves |-> 1, probed |-> new.probed, gets |-> 1,
          at |-> ip]

\* get_response with line 103 before the test of line 102: the result of
\* the scan is stored even when it is None
get_response_StoreNone(using_static, ip, first, new, retry) ==
    IF first.exc # "ConnectionError"
    THEN [ip |-> ip, exc |-> first.exc, status |-> first.status,
          data |-> first.data, resolves |-> 0, probed |-> 0, gets |-> 1,
          at |-> ip]
    ELSE IF using_static
    THEN [ip |-> ip, exc |-> "ConnectionError", status |-> 0, data |-> <<>>,
          resolves |-> 0, probed |-> 0, gets |-> 1,
          at |-> ip]
    ELSE IF new.exc # ""
    THEN [ip |-> ip, exc |-> new.exc, status |-> 0, data |-> <<>>,
          resolves |-> 1, probed |-> new.probed, gets |-> 1,
          at |-> ip]
    ELSE IF new.ip # None
    THEN [ip |-> new.ip, exc |-> retry.exc, status |-> retry.status,
          data |-> retry.data, resolves |-> 1, probed |-> new.probed,
          gets |-> 2, at |-> new.ip]
    ELSE [ip |-> new.ip, exc |-> "RuntimeError", status |-> 0, data |-> <<>>,
          resolves |-> 1, probed |-> new.probed, gets |-> 1,
          at |-> ip]

\* get_response(path), lines 96-109.  new is what self.get_ip_address()
\* returns if line 101 calls it.  The result carries the new value of
\* _ip_address and what the call did: resolves (calls of get_ip_address),
\* probed (scan GETs), gets (GETs of get_response itself), at (the address
\* of its last GET).
get_response(using_static, ip, first, new, retry) ==
    IF first.exc # "ConnectionError"
    THEN [ip |-> ip, exc |-> first.exc, status |-> first.status,
          data |-> first.data, resolves |-> 0, probed |-> 0, gets |-> 1,
          at |-> ip]
    ELSE IF using_static
    THEN [ip |-> ip, exc |-> "ConnectionError", status |-> 0, data |-> <<>>,
          resolves |-> 0, probed |-> 0, gets |-> 1,
          at |-> ip]
    ELSE IF new.exc # ""
    THEN [ip |-> ip, exc |-> new.exc, status |-> 0, data |-> <<>>,
          resolves |-> 1, probed |-> new.probed, gets |-> 1,
          at |-> ip]
    ELSE IF new.ip # None
    THEN [ip |-> new.ip, exc |-> retry.exc, status |-> retry.status,
          data |-> retry.data, resolves |-> 1, probed |-> new.probed,
          gets |-> 2, at |-> new.ip]
    ELSE [ip |-> ip, exc |-> "RuntimeError", status |-> 0, data |-> <<>>,
          resolves |-> 1, probed |-> new.probed, gets |-> 1,
          at |-> ip]

\* solar_panels_accessible taking any response for a connection: the status
\* is not looked at
solar_panels_accessible_AnyStatus(resp) ==
    IF resp.exc # "" THEN [exc |-> resp.exc, val |-> FALSE]
    ELSE [exc |-> "", val |-> TRUE]

\* solar_panels_accessible: the ConnectionError is logged and raised again
solar_panels_accessible(resp) ==
    IF resp.exc # "" THEN [exc |-> resp.exc, val |-> FALSE]
    ELSE [exc |-> "", val |-> resp.status = StatusOk]

\* ------------------------------------------------------------------------
\* The inputs: what the network, the device pages and the configuration
\* can be
\* ------------------------------------------------------------------------

LastSuffix == HostRange - 1

LiveSuffixes == (0..(MaxLive - 1)) \cup {LastSuffix}

ProbeOutcomes ==
    {"match", "nomatch", "ConnectionError", "Timeout", "RequestException"}

ProbeVectors ==
    {[i \in 0..LastSuffix |->
         IF i \in LiveSuffixes THEN v[i] ELSE "ConnectionError"] :
       v \in [LiveSuffixes -> ProbeOutcomes]}

\* a GET that raised
Failures ==
    {[exc |-> e, status |-> 0, data |-> <<>>] :
       e \in {"ConnectionError", "RequestException"}}

\* a GET that returned a page in which the xpath finds one of D
Pages(D) == {[exc |-> "", status |-> StatusOk, data |-> d] : d \in D}

\* a GET that returned an error page: nothing for an xpath to find
ErrorPage == [exc |-> "", status |-> 500, data |-> <<>>]

Outcomes(D) == Failures \cup Pages(D)

DigitChar(n) ==
    CASE n = 0 -> "0" [] n = 1 -> "1" [] n = 2 -> "2" [] n = 3 -> "3"
      [] n = 4 -> "4" [] n = 5 -> "5" [] n = 6 -> "6" [] n = 7 -> "7"
      [] n = 8 -> "8" [] n = 9 -> "9"

\* the inverter-count cell: missing, a count, or no number at all
MiData == {<<>>, << <<"x">> >>} \cup {<< <<DigitChar(n)>> >> : n \in 0..MaxMi}

\* the energy cell: missing, "1.20 kW", a lone point, no digit at all
WhData ==
    {<<>>, << <<"1", ".", "2", "0", " ", "k", "W">> >>, << <<".">> >>,
     << <<"k", "W">> >>}

\* the power cell: missing, "850 W", a lone point, no digit at all
WattsData ==
    {<<>>, << <<"8", "5", "0", " ", "W">> >>, << <<".">> >>, << <<"W">> >>}

\* the texts enumerated for the extractors
Alphabet == {"0", "1", ".", "k", "W", " ", "-"}

BoundedTexts == UNION {[1..n -> Alphabet] : n \in 0..MaxLen}

\* texts as the device's production page shows them: "1.20 kW", "850 W",
\* "2.01 kW"
ReadingTexts ==
    {<<"1", ".", "2", "0", " ", "k", "W">>, <<"8", "5", "0", " ", "W">>,
     <<"2", ".", "0", "1", " ", "k", "W">>}

\* what an extractor's xpath can find: nothing, or one text node
ExtractorData == {<<>>} \cup {<<t>> : t \in BoundedTexts \cup ReadingTexts}

\* static_ip: not given, or an address that no scan returns
StaticIps == {None, HostRange}

\* datetime.datetime.now(), to the quarter of an hour
Times == [hour : 0..23, minute : {0, 15, 30, 45}]

\* is_past_noon, lines 33-36, at the time dt that datetime.now() returns
is_past_noon(dt) == dt.hour > NoonHour

\* the times at which the runner is let to read the clock: in the morning,
\* in the hour that follows noon, in the afternoon
RunTimes == {dt \in Times : dt.hour \in {11, 12, 13} /\ dt.minute = 30}

Midnight == [hour |-> 0, minute |-> 0]

\* what the scan of get_ip_address gives on each probe vector
ScanTable == [p \in ProbeVectors |-> get_ip_address(FALSE, None, p)]

\* get_response reads the probes only through get_ip_address: the results
\* the scan can give, over every probe vector
ScanOutcomes == {ScanTable[p] : p \in ProbeVectors}

NoScan == [ip |-> None, exc |-> "", probed |-> 0]

\* ------------------------------------------------------------------------
\* State
\* ------------------------------------------------------------------------

VARIABLES
    static_ip,        \* the static_ip argument of SolarReader(...)
    using_static_ip,  \* SolarReader._using_static_ip
    ip_address,       \* SolarReader._ip_address
    pc,               \* where the process is
    state,            \* SolarData.state
    cur_wh, cur_mis, cur_watts,   \* locals of main_loop: <<>> or <<value>>
    exc,              \* the exception last raised to the caller, "" if none
    online,           \* what the last is_online() returned
    past_noon,        \* what the last is_past_noon() returned
    clock,            \* what datetime.now() returned in that call
    call,             \* what the last get_response did (client specification)
    rows, reads,      \* this cycle: rows handed to the sheet, reads done
    startup,          \* what run() found on entry
    waited,           \* wait_on_sunrise: "no", "entered", "slept"
    entered,          \* main_loop has been entered
    data, result      \* an extractor applied to what its xpath found

vars ==
    <<static_ip, using_static_ip, ip_address, pc, state, cur_wh, cur_mis,
      cur_watts, exc, online, past_noon, clock, call, rows, reads, startup,
      waited, entered, data, result>>

locals == <<cur_wh, cur_mis, cur_watts>>
history == <<startup, waited, entered>>
extractor == <<data, result>>

\* no GET issued
NoGet == [exc |-> "none", status |-> 0, data |-> <<>>]

NoCall ==
    [first |-> NoGet, scan |-> NoScan, retry |-> NoGet, ret |-> NoGet,
     resolves |-> 0, probed |-> 0, gets |-> 0, at |-> None, before |-> None,
     probes |-> <<>>]

NoResult == [op |-> "none", exc |-> "", val |-> 0]

\* the process before SolarReader(...) is called
Boot ==
    /\ using_static_ip = FALSE
    /\ ip_address = None
    /\ pc = "new"
    /\ state = "SUNRISE_WAIT"
    /\ cur_wh = <<>> /\ cur_mis = <<>> /\ cur_watts = <<>>
    /\ exc = ""
    /\ online = FALSE
    /\ past_noon = FALSE
    /\ clock = Midnight
    /\ call = NoCall
    /\ rows = 0 /\ reads = 0
    /\ startup = "none"
    /\ waited = "no" /\ entered = FALSE
    /\ result = NoResult

Init ==
    /\ static_ip \in StaticIps
    /\ data = <<>>
    /\ Boot

\* the record kept of a get_response call made with _ip_address = before
\* (first, scan, retry: what the network answered; ret: what the call
\* returned or raised)
Called(before, first, new, retry, r) ==
    [first |-> first, scan |-> new, retry |-> retry,
     ret |-> [exc |-> r.exc, status |-> r.status, data |-> r.data],
     resolves |-> r.resolves, probed |-> r.probed, gets |-> r.gets,
     at |-> r.at, before |-> before, probes |-> <<>>]

\* SolarReader.__init__, lines 29-44
Construct ==
    /\ pc = "new"
    /\ using_static_ip' = (static_ip # None)
    /\ IF static_ip # None
       THEN \E first \in Outcomes({<<>>}) \cup {ErrorPage} :
              LET r == get_response(TRUE, static_ip, first, NoScan, NoGet)
                  ok == solar_panels_accessible(r)
              IN  /\ ip_address' = static_ip
                  /\ call' = Called(static_ip, first, NoScan, NoGet, r)
                  /\ exc' = IF ok.exc # "" THEN ok.exc
                            ELSE IF ~ok.val THEN "RuntimeError" ELSE ""
       ELSE \E new \in ScanOutcomes :
              /\ ip_address' = new.ip
              /\ call' = [NoCall EXCEPT !.scan = new,
                                        !.probed = new.probed,
                                        !.resolves = 1]
              /\ exc' = IF new.exc # "" THEN new.exc
                        ELSE IF new.ip = None THEN "RuntimeError" ELSE ""
    /\ pc' = IF exc' = "" THEN "run" ELSE "init_failed"
    /\ UNCHANGED <<static_ip, state, locals, online, past_noon, clock, rows,
                   reads, history, extractor>>

\* The inputs of a get_response call whose pages are drawn from Outcomes(D);
\* the inputs the call does not read are not enumerated.
ScansFor(first) ==
    IF first.exc # "ConnectionError" THEN {NoScan}
    ELSE IF using_static_ip
    THEN {get_ip_address(TRUE, ip_address, <<>>)}
    ELSE ScanOutcomes

RetriesFor(D, first, new) ==
    IF new # NoScan /\ new.exc = "" /\ new.ip # None
    THEN Outcomes(D) ELSE {NoGet}

\* The calls of get_response a reader in the present state can make on
\* pages drawn from Outcomes(D): what each returns or raises, and the
\* _ip_address it leaves.
Requests(D) ==
    UNION {UNION {{get_response(using_static_ip, ip_address, first, new,
                                retry) :
                     retry \in RetriesFor(D, first, new)} :
                  new \in ScansFor(first)} :
           first \in Outcomes(D)}

\* ------------------------------------------------------------------------
\* The client alone: any sequence of get_response calls on a reader
\* ------------------------------------------------------------------------

Get ==
    /\ pc = "run"
    /\ \E first \in Outcomes(MiData) :
         \E new \in ScansFor(first) :
           \E retry \in RetriesFor(MiData, first, new) :
             LET r == get_response(using_static_ip, ip_address, first, new,
                                   retry)
             IN  /\ ip_address' = r.ip
                 /\ call' = Called(ip_address, first, new, retry, r)
                 /\ exc' = r.exc
    /\ UNCHANGED <<static_ip, using_static_ip, pc, state, locals, online,
                   past_noon, clock, rows, reads, history, extractor>>

ClientNext ==
    \/ Construct
    \/ Get

ClientSpec == Init /\ [][ClientNext]_vars

\* ------------------------------------------------------------------------
\* The locator alone: get_ip_address called on a constructed reader, the
\* answers of the hosts kept with its result
\* ------------------------------------------------------------------------

Resolve ==
    /\ pc = "run"
    /\ \E p \in ProbeVectors :
         LET new == IF using_static_ip
                    THEN get_ip_address(TRUE, ip_address, p)
                    ELSE ScanTable[p]
         IN  /\ call' = [NoCall EXCEPT !.scan = new, !.probes = p,
                                       !.probed = new.probed, !.resolves = 1,
                                       !.before = ip_address]
             /\ exc' = new.exc
    /\ UNCHANGED <<static_ip, using_static_ip, ip_address, pc, state, locals,
                   online, past_noon, clock, rows, reads, history, extractor>>

ScanNext ==
    \/ Construct
    \/ Resolve

ScanSpec == Init /\ [][ScanNext]_vars

\* ------------------------------------------------------------------------
\* The extractors alone, on every bounded text
\* ------------------------------------------------------------------------

ParseInit ==
    /\ static_ip = None
    /\ data \in ExtractorData
    /\ Boot

Page == [exc |-> "", status |-> StatusOk, data |-> data]

ExtractWh ==
    /\ result.op = "none"
    /\ LET v == get_wh_production(Page)
       IN  result' = [op |-> "wh", exc |-> v.exc, val |-> v.val]
    /\ UNCHANGED <<static_ip, using_static_ip, ip_address, pc, state, locals,
                   exc, online, past_noon, clock, call, rows, reads, history,
                   data>>

ExtractWatts ==
    /\ result.op = "none"
    /\ LET v == get_current_watt_production(Page)
       IN  result' = [op |-> "watts", exc |-> v.exc, val |-> v.val]
    /\ UNCHANGED <<static_ip, using_static_ip, ip_address, pc, state, locals,
                   exc, online, past_noon, clock, call, rows, reads, history,
                   data>>

ExtractMi ==
    /\ result.op = "none"
    /\ LET v == get_mi_online(Page)
       IN  result' = [op |-> "mi", exc |-> v.exc, val |-> v.val]
    /\ UNCHANGED <<static_ip, using_static_ip, ip_address, pc, state, locals,
                   exc, online, past_noon, clock, call, rows, reads, history,
                   data>>

\* is_online() on the page
CheckOnline ==
    /\ result.op = "none"
    /\ LET v == is_online(Page)
       IN  result' = [op |-> "online", exc |-> v.exc, val |-> v.val]
    /\ UNCHANGED <<static_ip, using_static_ip, ip_address, pc, state, locals,
                   exc, online, past_noon, clock, call, rows, reads, history,
                   data>>

ParseNext ==
    \/ ExtractWh
    \/ ExtractWatts
    \/ ExtractMi
    \/ CheckOnline

ParseSpec == ParseInit /\ [][ParseNext]_vars

\* ------------------------------------------------------------------------
\* SolarData (runner.py)
\* ------------------------------------------------------------------------

\* run() asking the clock before the inverter count: before noon it waits
\* for sunrise even when the inverters are online
RunThen_ClockFirst(r) ==
    LET o == is_online(r)
    IN  /\ exc' = o.exc
        /\ online' = o.val
        /\ IF o.exc # ""
           THEN pc' = "crashed" /\ startup' = "raised"
                /\ UNCHANGED <<waited, entered, past_noon, clock>>
           ELSE \E now \in RunTimes :
                  /\ clock' = now /\ past_noon' = is_past_noon(now)
                  /\ startup' = IF o.val THEN "online"
                                ELSE IF past_noon' THEN "offline_pm"
                                ELSE "offline_am"
                  /\ IF ~past_noon'
                     THEN pc' = "wait_check" /\ waited' = "entered"
                          /\ UNCHANGED entered
                     ELSE IF o.val
                     THEN pc' = "loop_cond" /\ entered' = TRUE
                          /\ UNCHANGED waited
                     ELSE pc' = "done" /\ UNCHANGED <<waited, entered>>

\* run(), lines 74-91: if is_online(): main_loop(); else: if not
\* is_past_noon(): wait_on_sunrise(); main_loop(); else: log.warning
RunThen(r) ==
    LET o == is_online(r)
    IN  /\ exc' = o.exc
        /\ online' = o.val
        /\ IF o.exc # ""
           THEN pc' = "crashed" /\ startup' = "raised"
                /\ UNCHANGED <<waited, entered, past_noon, clock>>
           ELSE IF o.val
           THEN pc' = "loop_cond" /\ startup' = "online"
                /\ entered' = TRUE /\ UNCHANGED <<waited, past_noon, clock>>
           ELSE \E now \in RunTimes :
                  /\ clock' = now /\ past_noon' = is_past_noon(now)
                  /\ IF ~past_noon'
                     THEN pc' = "wait_check" /\ startup' = "offline_am"
                          /\ waited' = "entered" /\ UNCHANGED entered
                     ELSE pc' = "done" /\ startup' = "offline_pm"
                          /\ UNCHANGED <<waited, entered>>

Run ==
    /\ pc = "run"
    /\ \E r \in Requests(MiData) : ip_address' = r.ip /\ RunThen(r)
    /\ UNCHANGED <<static_ip, using_static_ip, state, locals, call, rows,
                   reads, extractor>>

\* wait_on_sunrise with the test inverted: while is_online()
WaitCheckThen_Inverted(r) ==
    LET o == is_online(r)
    IN  /\ exc' = o.exc
        /\ online' = o.val
        /\ pc' = IF o.exc # "" THEN "crashed"
                 ELSE IF o.val THEN "wait_sleep" ELSE "loop_cond"
        /\ entered' = (o.exc = "" /\ ~o.val)

\* wait_on_sunrise, line 28: while not self.solar_reader.is_online(); when
\* the loop ends run() goes on to main_loop (line 87)
WaitCheckThen(r) ==
    LET o == is_online(r)
    IN  /\ exc' = o.exc
        /\ online' = o.val
        /\ pc' = IF o.exc # "" THEN "crashed"
                 ELSE IF o.val THEN "loop_cond" ELSE "wait_sleep"
        /\ entered' = (o.exc = "" /\ o.val)

WaitCheck ==
    /\ pc = "wait_check"
    /\ \E r \in Requests(MiData) : ip_address' = r.ip /\ WaitCheckThen(r)
    /\ UNCHANGED <<static_ip, using_static_ip, state, locals, past_noon,
                   clock, call, rows, reads, startup, waited, extractor>>

\* wait_on_sunrise, line 30: time.sleep(600)
WaitSleep ==
    /\ pc = "wait_sleep"
    /\ pc' = "wait_check"
    /\ waited' = "slept"
    /\ UNCHANGED <<static_ip, using_static_ip, ip_address, state, locals, exc,
                   online, past_noon, clock, call, rows, reads, startup,
                   entered, extractor>>

\* main_loop with the loop condition "while is_online()": the clock is not
\* asked
LoopCondThen_NoClock(r) ==
    LET o == is_online(r)
    IN  /\ exc' = o.exc
        /\ online' = o.val
        /\ UNCHANGED <<past_noon, clock>>
        /\ pc' = IF o.exc # "" THEN "crashed"
                 ELSE IF o.val THEN "morning_check" ELSE "done"

\* main_loop with the loop condition "while is_online() and not
\* is_past_noon()"
LoopCondThen_And(r) ==
    LET o == is_online(r)
    IN  /\ exc' = o.exc
        /\ online' = o.val
        /\ IF o.exc # "" THEN pc' = "crashed" /\ UNCHANGED <<past_noon, clock>>
           ELSE IF ~o.val THEN pc' = "done" /\ UNCHANGED <<past_noon, clock>>
           ELSE \E now \in RunTimes :
                  /\ clock' = now /\ past_noon' = is_past_noon(now)
                  /\ pc' = IF ~past_noon' THEN "morning_check" ELSE "done"

\* main_loop with the loop condition "while is_online() or is_past_noon()":
\* after noon the loop goes on
LoopCondThen_NotDropped(r) ==
    LET o == is_online(r)
    IN  /\ exc' = o.exc
        /\ online' = o.val
        /\ IF o.exc # "" THEN pc' = "crashed" /\ UNCHANGED <<past_noon, clock>>
           ELSE IF o.val
           THEN pc' = "morning_check" /\ UNCHANGED <<past_noon, clock>>
           ELSE \E now \in RunTimes :
                  /\ clock' = now /\ past_noon' = is_past_noon(now)
                  /\ pc' = IF past_noon' THEN "morning_check" ELSE "done"

\* main_loop, line 52: while is_online() or not is_past_noon(); the clock
\* is read only if is_online() returned False.  When the loop ends
\* main_loop and run() return.
LoopCondThen(r) ==
    LET o == is_online(r)
    IN  /\ exc' = o.exc
        /\ online' = o.val
        /\ IF o.exc # "" THEN pc' = "crashed" /\ UNCHANGED <<past_noon, clock>>
           ELSE IF o.val
           THEN pc' = "morning_check" /\ UNCHANGED <<past_noon, clock>>
           ELSE \E now \in RunTimes :
                  /\ clock' = now /\ past_noon' = is_past_noon(now)
                  /\ pc' = IF ~past_noon' THEN "morning_check" ELSE "done"

LoopCond ==
    /\ pc = "loop_cond"
    /\ \E r \in Requests(MiData) : ip_address' = r.ip /\ LoopCondThen(r)
    /\ rows' = 0 /\ reads' = 0
    /\ UNCHANGED <<static_ip, using_static_ip, state, locals, call, history,
                   extractor>>

\* main_loop, line 53: if not is_past_noon() and not is_online():
\* log.error; is_online() is called only before noon, outside the try
MorningCheckThen(r) ==
    LET o == is_online(r)
    IN  /\ exc' = o.exc
        /\ online' = o.val
        /\ pc' = IF o.exc # "" THEN "crashed" ELSE "read_wh"

MorningCheck ==
    /\ pc = "morning_check"
    /\ \E now \in RunTimes :
         /\ clock' = now /\ past_noon' = is_past_noon(now)
         /\ IF past_noon'
            THEN pc' = "read_wh" /\ UNCHANGED <<ip_address, exc, online>>
            ELSE \E r \in Requests(MiData) :
                   ip_address' = r.ip /\ MorningCheckThen(r)
    /\ UNCHANGED <<static_ip, using_static_ip, state, locals, call, rows,
                   reads, history, extractor>>

\* main_loop, line 56: cur_wh = get_wh_production(); an exception goes to
\* the except clause (line 61) and from there to the finally clause
ReadWhThen(r) ==
    LET v == get_wh_production(r)
    IN  /\ exc' = v.exc
        /\ IF v.exc # ""
           THEN pc' = "sleep" /\ UNCHANGED <<cur_wh, reads>>
           ELSE pc' = "read_mi" /\ cur_wh' = <<v.val>> /\ reads' = reads + 1

ReadWh ==
    /\ pc = "read_wh"
    /\ \E r \in Requests(WhData) : ip_address' = r.ip /\ ReadWhThen(r)
    /\ UNCHANGED <<static_ip, using_static_ip, state, cur_mis, cur_watts,
                   online, past_noon, clock, call, rows, history, extractor>>

\* main_loop with the sleep at the end of the try block instead of a finally
\* clause: a failed read goes back to the loop condition without sleeping
ReadMiThen_NoSleep(r) ==
    LET v == get_mi_online(r)
    IN  /\ exc' = v.exc
        /\ IF v.exc # ""
           THEN pc' = "loop_cond" /\ UNCHANGED <<cur_mis, reads>>
           ELSE pc' = "read_watts" /\ cur_mis' = <<v.val>>
                /\ reads' = reads + 1

\* main_loop, line 57: cur_mis = get_mi_online()
ReadMiThen(r) ==
    LET v == get_mi_online(r)
    IN  /\ exc' = v.exc
        /\ IF v.exc # ""
           THEN pc' = "sleep" /\ UNCHANGED <<cur_mis, reads>>
           ELSE pc' = "read_watts" /\ cur_mis' = <<v.val>>
                /\ reads' = reads + 1

ReadMi ==
    /\ pc = "read_mi"
    /\ \E r \in Requests(MiData) : ip_address' = r.ip /\ ReadMiThen(r)
    /\ UNCHANGED <<static_ip, using_static_ip, state, cur_wh, cur_watts,
                   online, past_noon, clock, call, rows, history, extractor>>

\* main_loop with the failure of the power read swallowed on the spot: the
\* row is written with the power of the cycle before
ReadWattsThen_Swallow(r) ==
    LET v == get_current_watt_production(r)
    IN  /\ exc' = v.exc
        /\ pc' = "update_row"
        /\ IF v.exc # ""
           THEN UNCHANGED <<cur_watts, reads>>
           ELSE cur_watts' = <<v.val>> /\ reads' = reads + 1

\* main_loop, line 58: cur_watts = get_current_watt_production()
ReadWattsThen(r) ==
    LET v == get_current_watt_production(r)
    IN  /\ exc' = v.exc
        /\ IF v.exc # ""
           THEN pc' = "sleep" /\ UNCHANGED <<cur_watts, reads>>
           ELSE pc' = "update_row" /\ cur_watts' = <<v.val>>
                /\ reads' = reads + 1

ReadWatts ==
    /\ pc = "read_watts"
    /\ \E r \in Requests(WattsData) : ip_address' = r.ip /\ ReadWattsThen(r)
    /\ UNCHANGED <<static_ip, using_static_ip, state, cur_wh, cur_mis, online,
                   past_noon, clock, call, rows, history, extractor>>

\* main_loop with an except clause that does not cover the sheet's error:
\* the finally clause sleeps and the error leaves main_loop
UpdateRow_Fatal ==
    /\ pc = "update_row"
    /\ rows' = rows + 1
    /\ \E e \in {"", "SinkError"} :
         exc' = e /\ pc' = IF e = "" THEN "sleep" ELSE "crashed"
    /\ UNCHANGED <<static_ip, using_static_ip, ip_address, state, locals,
                   online, past_noon, clock, call, reads, history, extractor>>

\* main_loop, line 60: self.sheet_reader.update_row(cur_wh, cur_mis,
\* cur_watts); whatever it raises is caught at line 61
UpdateRow ==
    /\ pc = "update_row"
    /\ rows' = rows + 1
    /\ \E e \in {"", "SinkError"} : exc' = e
    /\ pc' = "sleep"
    /\ UNCHANGED <<static_ip, using_static_ip, ip_address, state, locals,
                   online, past_noon, clock, call, reads, history, extractor>>

\* main_loop, line 64: finally: time.sleep(600), then back to line 52; a
\* KeyboardInterrupt that passed the except clause is raised again when the
\* finally clause ends
Sleep ==
    /\ pc = "sleep"
    /\ pc' = IF exc = "KeyboardInterrupt" THEN "interrupted" ELSE "loop_cond"
    /\ UNCHANGED <<static_ip, using_static_ip, ip_address, state, locals, exc,
                   online, past_noon, clock, call, rows, reads, history,
                   extractor>>

Next ==
    \/ Construct
    \/ Run
    \/ WaitCheck
    \/ WaitSleep
    \/ LoopCond
    \/ MorningCheck
    \/ ReadWh
    \/ ReadMi
    \/ ReadWatts
    \/ UpdateRow
    \/ Sleep

Spec == Init /\ [][Next]_vars

\* The process with every step that can be taken eventually taken: it is one
\* thread, and a GET or a sleep that returns lets it go on.  The reader is
\* given a static address: what run() does with the answers of the reader
\* does not depend on how the reader finds the device.
LiveInit ==
    /\ static_ip \in StaticIps \ {None}
    /\ data = <<>>
    /\ Boot

LiveSpec == LiveInit /\ [][Next]_vars /\ WF_vars(Next)

\* ------------------------------------------------------------------------
\* The process under an external shutdown signal.  runner.py installs no
\* handler: SIGTERM ends the process at once; SIGINT raises
\* KeyboardInterrupt at the statement being executed (time.sleep and the
\* GETs are interrupted by it).
\* ------------------------------------------------------------------------

Signals == {"SIGINT", "SIGTERM"}

\* pcs of the statements inside the try of main_loop (lines 56-60)
TryPcs == {"read_wh", "read_mi", "read_watts", "update_row"}

\* pcs at which the process runs
RunningPcs ==
    {"run", "wait_check", "wait_sleep", "loop_cond", "morning_check",
     "sleep"} \cup TryPcs

\* a wait_on_sunrise that catches the interrupt of its sleep and leaves the
\* loop: run() goes on to main_loop
SignalAt_WaitBreaks(at, sig) ==
    IF sig = "SIGTERM" THEN [pc |-> "killed", exc |-> "Terminated"]
    ELSE IF at \in {"wait_check", "wait_sleep"}
    THEN [pc |-> "loop_cond", exc |-> "KeyboardInterrupt"]
    ELSE IF at \in TryPcs
    THEN [pc |-> "sleep", exc |-> "KeyboardInterrupt"]
    ELSE [pc |-> "interrupted", exc |-> "KeyboardInterrupt"]

\* Where the signal sig takes a process that is at pc = at.  A
\* KeyboardInterrupt is not an Exception: inside the try of main_loop it
\* passes "except Exception" (line 61) and the finally clause sleeps (line
\* 64) before it propagates; anywhere else it propagates out of run() at
\* once.
SignalAt(at, sig) ==
    IF sig = "SIGTERM" THEN [pc |-> "killed", exc |-> "Terminated"]
    ELSE IF at \in TryPcs
    THEN [pc |-> "sleep", exc |-> "KeyboardInterrupt"]
    ELSE [pc |-> "interrupted", exc |-> "KeyboardInterrupt"]

Signal ==
    /\ pc \in RunningPcs
    /\ exc # "KeyboardInterrupt"
    /\ \E sig \in Signals :
         LET to == SignalAt(pc, sig)
         IN  pc' = to.pc /\ exc' = to.exc
    /\ UNCHANGED <<static_ip, using_static_ip, ip_address, state, locals,
                   online, past_noon, clock, call, rows, reads, history,
                   extractor>>

\* ------------------------------------------------------------------------
\* The clock alone: is_past_noon() at every time of the day
\* ------------------------------------------------------------------------

AskClock ==
    /\ \E dt \in Times : clock' = dt /\ past_noon' = is_past_noon(dt)
    /\ UNCHANGED <<static_ip, using_static_ip, ip_address, pc, state, locals,
                   exc, online, call, rows, reads, history, extractor>>

ClockNext == AskClock

ClockSpec == Init /\ [][ClockNext]_vars

SignalNext ==
    \/ Next
    \/ Signal

SignalSpec == Init /\ [][SignalNext]_vars

\* ------------------------------------------------------------------------
\* Properties
\* ------------------------------------------------------------------------

\* the process is inside main_loop
ActivePcs ==
    {"loop_cond", "morning_check", "read_wh", "read_mi", "read_watts",
     "update_row", "sleep"}

\* the process is inside wait_on_sunrise
WaitPcs == {"wait_check", "wait_sleep"}

\* C1: main_loop never ends normally unless the clock check of that very
\* evaluation of the loop condition returned true, whatever the inverter
\* count read.
C1_NoExitBeforeNoon ==
    [][(pc \in ActivePcs /\ pc' = "done")
         => (pc = "loop_cond" /\ exc' = "" /\ ~online' /\ past_noon')]_vars

\* C1 witness: main_loop has ended normally, after noon.
C1_ExitedAfterNoon == pc = "done" /\ entered /\ ~online /\ past_noon

\* C2 as stated: once a poll cycle has read and recorded inverter count 0
\* while the clock was past noon, no further poll cycle begins; and
\* main_loop never ends on an evaluation where the count is positive or the
\* clock is not past noon.
C2_ExitOnFirstZeroCycle ==
    [][/\ ((pc = "loop_cond" /\ rows = 1 /\ cur_mis = <<0>> /\ past_noon)
            => (pc' # "morning_check"))
       /\ ((pc \in ActivePcs /\ pc' = "done") => (~online' /\ past_noon'))]_vars

\* C2 amended: main_loop ends exactly at the first evaluation of its loop
\* condition in which is_online() reads a count of 0 (its own read, not the
\* count recorded by the cycle before) and is_past_noon() then returns true;
\* after that nothing is read, recorded or changed.
C2_ExitOnLoopCondition ==
    [][/\ (pc = "loop_cond"
            => ((pc' = "done") <=> (exc' = "" /\ ~online' /\ past_noon')))
       /\ (pc = "done" => UNCHANGED vars)]_vars

\* C2 witness: the cycle recorded a positive count, the loop condition then
\* read 0 after noon and main_loop ended.
C2_ExitAfterPositiveCycle ==
    /\ pc = "done" /\ entered /\ ~online /\ past_noon /\ exc = ""
    /\ cur_mis # <<>> /\ cur_mis[1] > 0

\* C3 as stated: no error of a device read made inside main_loop ends the
\* process.
C3_ActiveNeverCrashes ==
    [][(pc \in ActivePcs) => (pc' # "crashed")]_vars

\* C4: a cycle hands exactly one row to the sheet if its three reads
\* succeeded and none otherwise, and the cycle's sleep is followed by the
\* next evaluation of the loop condition.
C4_OneRowPerGoodCycle ==
    [][/\ ((pc # "sleep" /\ pc' = "sleep")
            => (rows' = (IF reads' = 3 THEN 1 ELSE 0)))
       /\ (pc = "sleep" => (pc' = "loop_cond"))]_vars

\* C4 witness: a cycle whose read failed after a failed re-resolution is at
\* its sleep with no row recorded.
C4_FailedCycleSleeps ==
    pc = "sleep" /\ exc = "RuntimeError" /\ reads < 3 /\ rows = 0

\* C5: when the count read at startup is positive, run() is in main_loop or
\* past it, and wait_on_sunrise has not been entered.
C5_OnlineStartsActive ==
    startup = "online"
        => /\ waited = "no" /\ entered
           /\ pc \in ActivePcs \cup {"done", "crashed"}

\* C5 witness: started online, and polling before noon.
C5_StartedOnlineBeforeNoon ==
    startup = "online" /\ pc = "read_wh" /\ ~past_noon

\* the wall clock t is later than 12:00 noon
PastNoon(t) == t.hour * 60 + t.minute > NoonHour * 60

\* C6 as stated: when run() reads a count of 0 at startup and the clock it
\* reads is past noon, it returns at once: wait_on_sunrise and main_loop are
\* not entered.
C6_OfflineAfterNoonIsDone ==
    [][(pc = "run" /\ exc' = "" /\ ~online' /\ PastNoon(clock'))
         => (pc' = "done" /\ waited' = "no" /\ ~entered')]_vars

\* C7: in wait_on_sunrise a check that reads 0 is followed by one sleep and
\* the sleep by the next check; main_loop is entered exactly at a check that
\* reads a positive count, and the wait is left in no other way but a raise.
C7_WaitUntilOnline ==
    [][/\ (pc = "wait_check"
            => (/\ (pc' = "wait_sleep") <=> (exc' = "" /\ ~online')
                /\ (pc' = "loop_cond") <=> (exc' = "" /\ online')
                /\ (pc' = "crashed") <=> (exc' # "")))
       /\ (pc = "wait_sleep" => (pc' = "wait_check"))]_vars

\* C7 witness: started offline before noon, slept at least once, then a
\* check read a positive count and main_loop was entered.
C7_WokeAfterSleeping ==
    /\ startup = "offline_am" /\ waited = "slept"
    /\ pc = "loop_cond" /\ online /\ entered

\* C8: in scan mode a get_response whose first GET raised ConnectionError
\* called get_ip_address once; if that found an address, _ip_address is that
\* address, one more GET was issued, to that address, and its outcome is the
\* call's outcome; if it found none, no further GET was issued,
\* RuntimeError was raised and _ip_address is as before.
C8_OneResolveOneRetry ==
    (pc = "run" /\ ~using_static_ip /\ call.first.exc = "ConnectionError")
        => /\ call.resolves = 1
           /\ (call.scan.exc = "" /\ call.scan.ip # None)
                => /\ ip_address = call.scan.ip
                   /\ call.gets = 2 /\ call.at = call.scan.ip
                   /\ call.ret = call.retry
           /\ (call.scan.exc = "" /\ call.scan.ip = None)
                => /\ ip_address = call.before
                   /\ call.gets = 1
                   /\ call.ret.exc = "RuntimeError"

\* C8 witness: the retried GET failed as well and its failure was the
\* outcome of the call, at the new address.
C8_RetryFailed ==
    /\ pc = "run" /\ ~using_static_ip
    /\ call.first.exc = "ConnectionError" /\ call.gets = 2
    /\ call.ret.exc = "ConnectionError" /\ ip_address # call.before

\* C9: with a static address, _ip_address is the configured address, no
\* call of get_response resolves or probes anything or issues a second GET,
\* and a ConnectionError of the GET is what the call raises.
C9_StaticNeverScans ==
    using_static_ip
        => /\ ip_address = static_ip
           /\ call.resolves = 0 /\ call.probed = 0 /\ call.gets <= 1
           /\ call.first.exc = "ConnectionError"
                => call.ret.exc = "ConnectionError"

\* C9 witness: a get_response of a constructed static-address reader raised
\* the ConnectionError of its GET.
C9_StaticGetFailed ==
    /\ pc = "run" /\ using_static_ip
    /\ call.first.exc = "ConnectionError" /\ call.ret.exc = "ConnectionError"

\* the text node holds no digit
NoDigit(d) == d # <<>> /\ \A i \in 1..Len(d[1]) : d[1][i] \notin Digits

\* C10 as stated: on a text without any digit the energy and the power
\* extraction return 0 and raise nothing.
C10_NoDigitGivesZero ==
    (NoDigit(data) /\ result.op \in {"wh", "watts"})
        => /\ result.exc = ""
           /\ (result.op = "wh") => (result.val = 0)
           /\ (result.op = "watts") => (result.val = Zero)
           /\ result.op = "watts" => result.val = Zero

IsIntegerText(t) ==
    LET inked == {i \in 1..Len(t) : t[i] # " "}
    IN  /\ inked # {}
        /\ \A i \in inked : \A j \in inked : \A n \in i..j : n \in inked
        /\ \E i \in inked :
              /\ \A j \in inked : i <= j
              /\ t[i] \in Digits \cup {"+", "-"}
              /\ \A j \in inked : (j > i) => (t[j] \in Digits)
              /\ \E j \in inked : t[j] \in Digits

\* C12: get_mi_online and is_online raise whenever the count text is missing
\* or does not write an integer; a count of 0 is returned only for a text
\* that writes zero, and is_online answers False only for a text that writes
\* an integer that is not positive.
C12_CountNeverFallsBack ==
    (result.op \in {"mi", "online"})
        => /\ (data = <<>> \/ ~IsIntegerText(data[1])) => (result.exc # "")
           /\ (result.op = "mi" /\ result.exc = "" /\ result.val = 0)
                => (\A i \in 1..Len(data[1]) : data[1][i] # "1")
           /\ (result.op = "online" /\ result.exc = "" /\ ~result.val)
                => (\/ \A i \in 1..Len(data[1]) : data[1][i] # "1"
                    \/ \E i \in 1..Len(data[1]) : data[1][i] = "-")

\* C12 witness: a count text that holds a digit and still is no integer made
\* is_online raise ValueError.
C12_MalformedCountRaised ==
    /\ result.op = "online" /\ result.exc = "ValueError" /\ data # <<>>
    /\ \E i \in 1..Len(data[1]) : data[1][i] \in Digits

\* the suffixes whose page holds the tag, and those whose probe raises what
\* the scan does not swallow
Matching(p) == {i \in 0..LastSuffix : p[i] = "match"}

Breaking(p) ==
    {i \in 0..LastSuffix :
       p[i] \notin {"match", "nomatch", "ConnectionError", "Timeout"}}

Scanned == pc = "run" /\ ~using_static_ip /\ call.probes # <<>>

\* C13 as stated: the scan returns the lowest suffix whose page matches,
\* having probed that suffix and those below it, and returns None exactly
\* when no suffix matches, after no more than 256 probes.
C13_LowestMatchOrNone ==
    Scanned
        => /\ \A i \in Matching(call.probes) :
                (\A j \in Matching(call.probes) : i <= j)
                    => (/\ call.scan.ip = i /\ call.scan.exc = ""
                        /\ call.scan.probed = i + 1)
           /\ (Matching(call.probes) = {})
                <=> (call.scan.ip = None /\ call.scan.exc = "")
           /\ call.scan.probed <= HostRange

\* C13 amended: the scan ends at the lowest suffix that either matches or
\* raises something other than ConnectionError and Timeout, having probed
\* that suffix and those below it: it returns the suffix if it matched and
\* raises that exception otherwise; it returns None exactly when there is no
\* such suffix, after 256 probes.
C13_LowestMatchOrBreak ==
    Scanned
        => LET ends == Matching(call.probes) \cup Breaking(call.probes)
           IN  /\ \A i \in ends :
                    (\A j \in ends : i <= j)
                        => /\ call.scan.probed = i + 1
                           /\ (i \in Matching(call.probes))
                                => (call.scan.ip = i /\ call.scan.exc = "")
                           /\ (i \in Breaking(call.probes))
                                => (/\ call.scan.ip = None
                                    /\ call.scan.exc = call.probes[i])
               /\ (ends = {})
                    <=> (call.scan.ip = None /\ call.scan.exc = "")
               /\ (ends = {}) => (call.scan.probed = HostRange)

\* C13 witness: the scan swallowed a ConnectionError and a Timeout on its way
\* and returned the last suffix of the range after 256 probes.
C13_SwallowedThenFound ==
    /\ Scanned
    /\ call.probes[0] = "ConnectionError" /\ call.probes[1] = "Timeout"
    /\ call.scan.ip = LastSuffix /\ call.scan.probed = HostRange

\* the process has been ended by a signal
StoppedPcs == {"interrupted", "killed"}

\* C14: a shutdown signal that arrives while the process is in
\* wait_on_sunrise ends it at once, main_loop not entered and nothing
\* recorded; and an ended process does nothing more.
C14_SignalEndsWait ==
    [][/\ ((pc \in WaitPcs /\ exc' \in {"KeyboardInterrupt", "Terminated"})
            => (pc' \in StoppedPcs /\ ~entered' /\ rows' = 0))
       /\ ((pc \in StoppedPcs) => UNCHANGED vars)]_vars

\* C14 witness: interrupted in wait_on_sunrise after at least one sleep,
\* main_loop never entered.
C14_InterruptedWhileWaiting ==
    /\ pc = "interrupted" /\ startup = "offline_am" /\ waited = "slept"
    /\ ~entered /\ rows = 0

\* C15: the sheet is written at most once in a cycle, and a write that
\* raised is followed by the cycle's sleep and the sleep by the next
\* evaluation of the loop condition, with no second write.
C15_SinkFailureNotFatal ==
    [][/\ ((pc = "update_row")
            => (pc' = "sleep" /\ rows = 0 /\ rows' = 1))
       /\ ((pc = "sleep" /\ exc = "SinkError")
            => (pc' = "loop_cond" /\ rows' = 1))]_vars

\* C15 witness: the write of the cycle raised, the process slept and is at
\* the loop condition again.
C15_SleptAfterSinkError ==
    pc = "loop_cond" /\ exc = "SinkError" /\ rows = 1 /\ reads = 3

\* C16: SolarReader(...) either raises or gives a reader.  With a static
\* address it issues one GET to that address and no scan, and gives a reader
\* exactly when the GET returned a response of status 200; without one it
\* scans once, issues no other GET, and gives a reader exactly when the scan
\* returned an address, which it keeps.  After a raise nothing runs.
C16_ConstructionNeedsProbe ==
    [][/\ ((pc = "new")
            => /\ pc' \in {"run", "init_failed"}
               /\ (pc' = "init_failed") <=> (exc' # "")
               /\ using_static_ip'
                    => /\ call'.gets = 1 /\ call'.at = static_ip
                       /\ call'.resolves = 0 /\ call'.probed = 0
                       /\ (pc' = "run")
                            <=> (/\ call'.first.exc = ""
                                 /\ call'.first.status = StatusOk)
                       /\ (pc' = "run") => (ip_address' = static_ip)
               /\ (~using_static_ip')
                    => /\ call'.resolves = 1 /\ call'.gets = 0
                       /\ (pc' = "run")
                            <=> (call'.scan.exc = "" /\ call'.scan.ip # None)
                       /\ (pc' = "run") => (ip_address' = call'.scan.ip))
       /\ ((pc = "init_failed") => UNCHANGED vars)]_vars

\* C16 witness: the static address answered, but not with status 200, and
\* the constructor raised.
C16_StaticProbeRefused ==
    /\ pc = "init_failed" /\ using_static_ip /\ exc = "RuntimeError"
    /\ call.first.exc = "" /\ call.first.status # StatusOk

\* C17: a constructed reader always holds an address, and its address
\* changes only in a get_response whose first GET raised ConnectionError and
\* whose scan returned an address, to that address.
C17_AddressNeverNone ==
    /\ [](pc = "run" => ip_address # None)
    /\ [][(pc = "run" /\ ip_address' # ip_address)
            => (/\ call'.first.exc = "ConnectionError"
                /\ call'.resolves = 1 /\ call'.scan.exc = ""
                /\ call'.scan.ip # None /\ ip_address' = call'.scan.ip)]_vars

\* C17 witness: the scan of a get_response found nothing, RuntimeError was
\* raised and the reader still holds the address it had.
C17_KeptAddressAfterNotFound ==
    /\ pc = "run" /\ ~using_static_ip
    /\ call.first.exc = "ConnectionError" /\ call.resolves = 1
    /\ call.scan.exc = "" /\ call.scan.ip = None
    /\ call.ret.exc = "RuntimeError"
    /\ ip_address = call.before /\ ip_address # None

\* C18: inside main_loop every cycle, whether its reads and its write
\* succeeded or raised, ends in the sleep of the finally clause; the loop
\* condition is evaluated again only from that sleep, one sleep each time,
\* and a cycle begins only from an evaluation of the loop condition.
C18_SleepBetweenCycles ==
    [][/\ ((pc \in TryPcs) => (pc' \in TryPcs \cup {"sleep"}))
       /\ ((pc \in ActivePcs /\ pc' = "loop_cond") => (pc = "sleep"))
       /\ ((pc = "sleep") => (pc' = "loop_cond"))
       /\ ((pc' = "read_wh") => (pc = "morning_check"))
       /\ ((pc' = "morning_check") => (pc = "loop_cond"))]_vars

\* C18 witness: the inverter read of a cycle raised after the energy read
\* had succeeded, and the cycle is at its sleep.
C18_SleepAfterFailedRead ==
    pc = "sleep" /\ exc = "IndexError" /\ reads = 1 /\ rows = 0

\* C19 as stated: is_past_noon() returns True exactly when the time that
\* datetime.now() returned is later than 12:00.
C19_PastNoonIsAfterTwelve == past_noon <=> PastNoon(clock)

\* a step of a quiet afternoon: a read of the inverter count succeeds with
\* value 0 and a call of is_past_noon() returns True
Quiet ==
    /\ (pc \in {"run", "wait_check", "loop_cond"}) => (exc' = "" /\ ~online')
    /\ (pc \in {"run", "loop_cond", "morning_check"}) => past_noon'
    /\ (pc = "read_mi") => (exc' = "" /\ cur_mis' = <<0>>)

\* the process has not raised out of the constructor or of run()
Sound == pc \notin {"init_failed", "crashed"}

\* C20 as stated: a process that does not fail and whose steps are quiet
\* from some point on reaches the end of run(), after which nothing changes.
C20_QuietAfternoonEnds ==
    /\ ([]Sound /\ <>[][Quiet]_vars) => <>(pc = "done")
    /\ [][(pc = "done") => (pc' = "done")]_vars

\* C20 amended: a process that has entered main_loop and does not fail,
\* and whose steps are quiet from some point on, reaches the end of run(),
\* after which nothing is read, slept or recorded.  (A process in
\* wait_on_sunrise stays there for as long as the count read is 0.)
C20_ActiveAfternoonEnds ==
    /\ ([]Sound /\ <>(pc \in ActivePcs) /\ <>[][Quiet]_vars)
         => <>(pc = "done")
    /\ [][(pc = "done")
            => (rows' = rows /\ reads' = reads /\ pc' = "done")]_vars

\* C20 witness: a process that waited for sunrise, polled, recorded a count
\* of 0 and then left main_loop after noon.
C20_DoneAfterQuietCycle ==
    /\ pc = "done" /\ entered /\ waited = "slept" /\ exc = ""
    /\ cur_mis = <<0>> /\ cur_wh # <<>> /\ cur_watts # <<>> /\ past_noon

====
